---- MODULE Spec2Model ----
(***************************************************************************)
(* A model of rex's crash triage and exploration engine (rex/crash.py).    *)
(*                                                                         *)
(* Symbolic values.  A bit-vector expression is a record [sym, val]: sym   *)
(* is the set of bit positions whose bit is a symbolic expression (bit i   *)
(* of the expression is bit i of the symbolic input), val carries the      *)
(* concrete bits.  A constraint set is a set of atomic constraints         *)
(* <<i, b>> ("bit i of the input equals b"); it is always satisfiable.     *)
(* Addresses are kept below 2^31.                                          *)
(***************************************************************************)
EXTENDS Integers, Sequences, FiniteSets, TLC

VARIABLES
    fn_pc, fn_in, fn_out,        \* one call of a pure function
    t_pc, t_first, t_second,     \* two Crash objects holding the same crash state
    pc,                          \* "new", "live", or "failed" once __init__ raised
    obj,                         \* the Crash object
    n_traces,                    \* how often the engine was asked to run an input
    n_triaged,                   \* how often _triage_crash ran
    last,                        \* what the last call did and raised
    chall_resp_plugin,           \* the ChallRespInfo plugin of the traced state
    hooked,                      \* addresses the project hooks with end_info_hook
    frames,                      \* the hooked functions the traced program is inside
    n_calls                      \* calls of hooked functions so far

pure_vars == <<fn_pc, fn_in, fn_out>>

triage_vars == <<t_pc, t_first, t_second>>

crash_vars == <<pc, obj, n_traces, n_triaged, last>>

hook_vars == <<chall_resp_plugin, hooked, frames, n_calls>>

vars == <<fn_pc, fn_in, fn_out, t_pc, t_first, t_second, pc, obj, n_traces,
         n_triaged, last, chall_resp_plugin, hooked, frames, n_calls>>

None == "None"

\* violating_action = None
NoAction == [type |-> "None"]

\* self.state.arch.bits for the i386 targets rex traces
ArchBits == 32

\* bit positions an address expression may use (addresses stay below 2^31)
AddrBits == ArchBits - 1

\* ------------------------------------------------------------------------
\* Bounds
\* ------------------------------------------------------------------------
MaxSegLen == 4

MaxSegAddr == 4

\* longest access log of the block before the crash / of the crashing block
MaxPrevLen == 1

MaxLogLen == 2

\* exploration rounds before the calls that use a crash (exploit,
\* yield_exploits, point_to_flag) are looked at
MaxUseRounds == 2

\* most actions the one instruction quick_triage executes may produce
MaxQuickLog == 2

\* ------------------------------------------------------------------------
\* rex.vulnerability.Vulnerability
\* ------------------------------------------------------------------------
IP_OVERWRITE == "ip_overwrite"

PARTIAL_IP_OVERWRITE == "partial_ip_overwrite"

BP_OVERWRITE == "bp_overwrite"

PARTIAL_BP_OVERWRITE == "partial_bp_overwrite"

WRITE_WHAT_WHERE == "write_what_where"

WRITE_X_WHERE == "write_x_where"

ARBITRARY_READ == "arbitrary_read"

NULL_DEREFERENCE == "null_dereference"

UNCONTROLLED_IP_OVERWRITE == "uncontrolled_ip_overwrite"

UNCONTROLLED_WRITE == "uncontrolled_write"

\* ------------------------------------------------------------------------
\* Exceptions
\* ------------------------------------------------------------------------
NonCrashingInput == "NonCrashingInput"

CannotExplore == "CannotExplore: non-explorable crash"

TooManySteps == "CannotExploit: Too many steps taken during crash exploration"

NoReadAddress == "CannotExploit: unable to find suitable read address, cannot explore"

NoWriteSegment == "CannotExploit: Cannot point write at any writeable segments"

AssertionError == "AssertionError"

NonExploitable == "CannotExploit: non-exploitable crash"

NotArbitraryRead == "CannotExploit: only arbitrary-reads can be exploited this way"

NoFlagPointer == "CannotExploit: unable to point arbitrary-read at the flag page"

NotCgc == "ValueError: quick_triage is only available for CGC binaries"

UnrecognizedAction == "ValueError: unrecognized memory action encountered"

\* the step bound of __init__
MaxSteps == 10

\* candidate stride of the searches
PAGE == 4096

\* ------------------------------------------------------------------------
\* Bit-vector expressions and the solver
\* ------------------------------------------------------------------------
Max2(a, b) == IF a >= b THEN a ELSE b

BitOf(v, i) == IF i >= AddrBits THEN 0 ELSE (v \div (2 ^ i)) % 2

RECURSIVE SumPow(_)
SumPow(S) ==
    IF S = {} THEN 0
    ELSE LET i == CHOOSE x \in S : TRUE IN (2 ^ i) + SumPow(S \ {i})

Concrete(v) == [sym |-> {}, val |-> v]

\* state.se.symbolic(e) / e.symbolic: the AST contains a symbolic variable
symbolic(e) == e.sym # {}

\* st[bitidx].symbolic
BitSymbolic(st, bitidx) == bitidx \in st.sym

FixedBits(cons) == {c[1] : c \in cons}

FixedVal(cons, i) == (CHOOSE c \in cons : c[1] = i)[2]

\* can bit i of expression e take the value b under the constraints
BitCanBe(cons, e, i, b) ==
    IF i \in e.sym
    THEN (i \notin FixedBits(cons)) \/ (FixedVal(cons, i) = b)
    ELSE BitOf(e.val, i) = b

\* state.se.satisfiable(extra_constraints=(e == c,))
SatisfiableEq(cons, e, c) ==
    LET d == c - e.val
    IN /\ d >= 0
       /\ d = SumPow({i \in e.sym : BitOf(d, i) = 1})
       /\ \A k \in cons : k[1] \in e.sym => k[2] = BitOf(d, k[1])

\* state.se.min(e)
SolverMin(cons, e) ==
    e.val + SumPow({i \in e.sym : <<i, 1>> \in cons})

\* state.se.max(e)
SolverMax(cons, e) ==
    e.val + SumPow({i \in e.sym : <<i, 0>> \notin cons})

\* state.add_constraints(e == c), for a satisfiable equality
\* satisfiable(extra_constraints=(e >= lo, e < hi))
SatisfiableRange(cons, e, lo, hi) ==
    \E ones \in SUBSET e.sym :
        /\ \A k \in cons : k[1] \in e.sym => (k[2] = 1 <=> k[1] \in ones)
        /\ lo <= e.val + SumPow(ones)
        /\ e.val + SumPow(ones) < hi

AddEq(cons, e, c) == cons \cup {<<i, BitOf(c, i)>> : i \in e.sym}

\* ------------------------------------------------------------------------
\* Crash._segment
\* ------------------------------------------------------------------------
EmptyDict == [k \in {} |-> 0]

\* segments[k] = v
Put(d, k, v) == (k :> v) @@ d

RECURSIVE Insert(_, _)
Insert(x, s) ==
    IF s = <<>> THEN <<x>>
    ELSE IF x <= Head(s) THEN <<x>> \o s
    ELSE <<Head(s)>> \o Insert(x, Tail(s))

\* sorted(memory_writes)
RECURSIVE sorted(_)
sorted(s) == IF s = <<>> THEN <<>> ELSE Insert(Head(s), sorted(Tail(s)))

SegmentLoopSplitTouching(ws, i, current_w_start, current_w_end, segments) ==
    LET RECURSIVE Loop(_, _, _, _)
        Loop(j, s, e, segs) ==
            IF j > Len(ws) THEN Put(segs, s, e - s)
            ELSE IF ws[j] >= e
                 THEN Loop(j + 1, ws[j], ws[j] + 1, Put(segs, s, e - s))
                 ELSE Loop(j + 1, s, Max2(e, ws[j] + 1), segs)
    IN Loop(i, current_w_start, current_w_end, segments)

RECURSIVE SegmentLoop(_, _, _, _, _)
SegmentLoop(ws, i, current_w_start, current_w_end, segments) ==
    IF i > Len(ws)
    THEN Put(segments, current_w_start, current_w_end - current_w_start)
    ELSE LET write_start == ws[i]
             write_len == 1
         IN IF write_start > current_w_end
            THEN SegmentLoop(ws, i + 1, write_start, write_start + write_len,
                             Put(segments, current_w_start, current_w_end - current_w_start))
            ELSE SegmentLoop(ws, i + 1, current_w_start,
                             Max2(current_w_end, write_start + write_len), segments)

SegmentMergeNearby(memory_writes) ==
    LET ws == sorted(memory_writes)
        RECURSIVE Loop(_, _, _, _)
        Loop(i, s, e, segs) ==
            IF i > Len(ws) THEN Put(segs, s, e - s)
            ELSE IF ws[i] > e + 1
                 THEN Loop(i + 1, ws[i], ws[i] + 1, Put(segs, s, e - s))
                 ELSE Loop(i + 1, s, Max2(e, ws[i] + 1), segs)
    IN IF Len(ws) = 0 THEN EmptyDict ELSE Loop(2, ws[1], ws[1] + 1, EmptyDict)

_segment(memory_writes) ==
    LET ws == sorted(memory_writes)
    IN IF Len(ws) = 0
       THEN EmptyDict
       ELSE SegmentLoop(ws, 2, ws[1], ws[1] + 1, EmptyDict)

\* ------------------------------------------------------------------------
\* Crash._symbolic_control
\* ------------------------------------------------------------------------
SymbolicControlFreeBits(cons, st) ==
    Cardinality({bitidx \in 0..(ArchBits - 1) :
                    BitCanBe(cons, st, bitidx, 0) /\ BitCanBe(cons, st, bitidx, 1)})

SymbolicControlShort(st) ==
    Cardinality({bitidx \in 0..(ArchBits - 2) : BitSymbolic(st, bitidx)})

_symbolic_control(st) ==
    Cardinality({bitidx \in 0..(ArchBits - 1) : BitSymbolic(st, bitidx)})

\* ------------------------------------------------------------------------
\* Crash._triage_crash
\* ------------------------------------------------------------------------
\* the loop over symbolic_actions (lines 513-531), from index i on
TriageActionsLast(self, symbolic_actions, i) ==
    IF symbolic_actions = <<>> THEN self
    ELSE LET sym_action == symbolic_actions[Len(symbolic_actions)]
         IN [self EXCEPT !.crash_type =
                            IF sym_action.action = "write"
                            THEN IF symbolic(sym_action.data)
                                 THEN WRITE_WHAT_WHERE ELSE WRITE_X_WHERE
                            ELSE ARBITRARY_READ,
                         !.violating_action = sym_action]

RECURSIVE TriageActions(_, _, _)
TriageActions(self, symbolic_actions, i) ==
    IF i > Len(symbolic_actions) THEN self
    ELSE LET sym_action == symbolic_actions[i]
         IN IF sym_action.action = "write"
            THEN [self EXCEPT !.crash_type = IF symbolic(sym_action.data)
                                             THEN WRITE_WHAT_WHERE
                                             ELSE WRITE_X_WHERE,
                              !.violating_action = sym_action]
            ELSE IF sym_action.action = "read"
            THEN [self EXCEPT !.crash_type = ARBITRARY_READ,
                              !.violating_action = sym_action]
            ELSE TriageActions(self, symbolic_actions, i + 1)

\* lines 505-509: the memory accesses with a symbolic address, in log order
SymbolicActions(self, log) ==
    SelectSeq(log, LAMBDA a : a.type = "mem" /\ symbolic(a.addr))

TriageBpFirst(self) ==
    LET ip == self.state.ip
        bp == self.state.bp
    IN IF symbolic(bp)
       THEN [self EXCEPT !.crash_type = IF _symbolic_control(bp) >= ArchBits
                                        THEN BP_OVERWRITE ELSE PARTIAL_BP_OVERWRITE]
       ELSE IF symbolic(ip)
       THEN [self EXCEPT !.crash_type = IF _symbolic_control(ip) >= ArchBits
                                        THEN IP_OVERWRITE ELSE PARTIAL_IP_OVERWRITE]
       ELSE TriageActions(self, SymbolicActions(self, self.prev.actions \o self.state.actions), 1)

TriageActionsBeforeBp(self) ==
    LET ip == self.state.ip
        bp == self.state.bp
        symbolic_actions == SymbolicActions(self, self.prev.actions \o self.state.actions)
    IN IF symbolic(ip)
       THEN [self EXCEPT !.crash_type = IF _symbolic_control(ip) >= ArchBits
                                        THEN IP_OVERWRITE ELSE PARTIAL_IP_OVERWRITE]
       ELSE IF symbolic_actions # <<>>
       THEN TriageActions(self, symbolic_actions, 1)
       ELSE IF symbolic(bp)
       THEN [self EXCEPT !.crash_type = IF _symbolic_control(bp) >= ArchBits
                                        THEN BP_OVERWRITE ELSE PARTIAL_BP_OVERWRITE]
       ELSE self

TriageSkipConstrained(self) ==
    LET ip == self.state.ip
        bp == self.state.bp
        seen == {self.constrained_addrs[k] : k \in DOMAIN self.constrained_addrs}
        symbolic_actions ==
            SelectSeq(self.prev.actions \o self.state.actions,
                      LAMBDA a : a.type = "mem" /\ symbolic(a.addr) /\ a \notin seen)
    IN IF symbolic(ip)
       THEN [self EXCEPT !.crash_type = IF _symbolic_control(ip) >= ArchBits
                                        THEN IP_OVERWRITE ELSE PARTIAL_IP_OVERWRITE]
       ELSE IF symbolic(bp)
       THEN [self EXCEPT !.crash_type = IF _symbolic_control(bp) >= ArchBits
                                        THEN BP_OVERWRITE ELSE PARTIAL_BP_OVERWRITE]
       ELSE TriageActions(self, symbolic_actions, 1)

_triage_crash(self) ==
    LET ip == self.state.ip
        bp == self.state.bp
    IN IF symbolic(ip)
       THEN [self EXCEPT !.crash_type = IF _symbolic_control(ip) >= ArchBits
                                        THEN IP_OVERWRITE ELSE PARTIAL_IP_OVERWRITE]
       ELSE IF symbolic(bp)
       THEN [self EXCEPT !.crash_type = IF _symbolic_control(bp) >= ArchBits
                                        THEN BP_OVERWRITE ELSE PARTIAL_BP_OVERWRITE]
       ELSE TriageActions(self, SymbolicActions(self, self.prev.actions \o self.state.actions), 1)

\* ------------------------------------------------------------------------
\* Harness for the pure functions: one call of _segment or _symbolic_control
\* ------------------------------------------------------------------------
Range(s) == {s[i] : i \in DOMAIN s}

RECURSIVE SeqsUpTo(_, _)
SeqsUpTo(S, n) ==
    IF n = 0 THEN {<<>>}
    ELSE LET shorter == SeqsUpTo(S, n - 1)
         IN shorter \cup {Append(s, x) : s \in {t \in shorter : Len(t) = n - 1}, x \in S}

ExampleWrites == <<10, 11, 12, 20, 21, 30>>

ExampleShuffled == <<30, 21, 10, 12, 11, 20, 10>>

ExampleSegments == (10 :> 3) @@ (20 :> 2) @@ (30 :> 1)

SegmentInputs ==
    SeqsUpTo(0..MaxSegAddr, MaxSegLen) \cup {ExampleWrites, ExampleShuffled, <<5>>}

FullySymbolic == [sym |-> 0..(ArchBits - 1), val |-> 0]

LowByteSymbolic == [sym |-> 0..7, val |-> 134513920]

PageBitsSymbolic == [sym |-> {12, 13}, val |-> 134512640]

SparseBitsSymbolic == [sym |-> {13, 14}, val |-> 134512640]

LowAndPageBitsSymbolic == [sym |-> {4, 12, 13}, val |-> 134512640]

ExprSamples ==
    {Concrete(1094795585), Concrete(134513955), FullySymbolic, LowByteSymbolic,
     PageBitsSymbolic, SparseBitsSymbolic, LowAndPageBitsSymbolic}

\* the constraints force the whole input to one concrete value
ForcedTo(v) == {<<i, BitOf(v, i)>> : i \in 0..(ArchBits - 1)}

ConsSamples ==
    {{}, ForcedTo(1094795585), {<<12, 1>>}, {<<12, 0>>, <<14, 1>>},
     {<<i, 0>> : i \in 0..3}}

ControlInputs == [fn : {"_symbolic_control"}, st : ExprSamples, cons : ConsSamples]

PureIdle == fn_pc = "idle" /\ fn_in = None /\ fn_out = None

TriageIdle == t_pc = "idle" /\ t_first = None /\ t_second = None

CrashIdle ==
    pc = "idle" /\ obj = None /\ n_traces = 0 /\ n_triaged = 0 /\ last = None

HookIdle == chall_resp_plugin = None /\ hooked = {} /\ frames = <<>> /\ n_calls = 0

PureInit ==
    /\ TriageIdle
    /\ CrashIdle
    /\ HookIdle
    /\ fn_pc = "call"
    /\ fn_out = None
    /\ fn_in \in [fn : {"_segment"}, memory_writes : SegmentInputs] \cup ControlInputs

CallSegment ==
    /\ fn_pc = "call"
    /\ fn_in.fn = "_segment"
    /\ fn_out' = _segment(fn_in.memory_writes)
    /\ fn_pc' = "done"
    /\ UNCHANGED <<fn_in, triage_vars, crash_vars, hook_vars>>

CallSymbolicControl ==
    /\ fn_pc = "call"
    /\ fn_in.fn = "_symbolic_control"
    /\ fn_out' = _symbolic_control(fn_in.st)
    /\ fn_pc' = "done"
    /\ UNCHANGED <<fn_in, triage_vars, crash_vars, hook_vars>>

PureNext == CallSegment \/ CallSymbolicControl

PureSpec == PureInit /\ [][PureNext]_vars

SegmentDone == fn_pc = "done" /\ fn_in.fn = "_segment"

ControlDone == fn_pc = "done" /\ fn_in.fn = "_symbolic_control"

\* addresses covered by a start -> length mapping
Covered(segments) == UNION {k..(k + segments[k] - 1) : k \in DOMAIN segments}

C8_SegmentExactCover ==
    SegmentDone =>
        /\ Covered(fn_out) = Range(fn_in.memory_writes)
        /\ (fn_in.memory_writes = <<>> => fn_out = EmptyDict)
        /\ (Range(fn_in.memory_writes) = Range(ExampleWrites) => fn_out = ExampleSegments)

\* an unsorted input with a duplicate and with gaps has been coalesced
C8_Witness ==
    /\ SegmentDone
    /\ fn_in.memory_writes = ExampleShuffled
    /\ fn_out = ExampleSegments

\* C9: every returned length is at least 1 and, of two distinct segments,
\* the lower one ends strictly before the higher one starts.
C9_SegmentsMaximalDisjoint ==
    SegmentDone =>
        /\ \A k \in DOMAIN fn_out : fn_out[k] >= 1
        /\ \A k1, k2 \in DOMAIN fn_out : k1 < k2 => k1 + fn_out[k1] < k2

\* two segments, one of them a merged run, came out of a full-length input
C9_Witness ==
    /\ SegmentDone
    /\ Cardinality(DOMAIN fn_out) = 2
    /\ \E k \in DOMAIN fn_out : fn_out[k] >= 2
    /\ Len(fn_in.memory_writes) = MaxSegLen

\* ------------------------------------------------------------------------
\* Harness for the classifier: two Crash objects that hold the same crash
\* state (registers, constraints, both access logs) and differ in what the
\* exploration rounds carry; each is triaged, the first one twice.
\* ------------------------------------------------------------------------
FileAccess ==
    [type |-> "file", action |-> "read", addr |-> LowByteSymbolic,
     data |-> FullySymbolic, ins_addr |-> 134513000]

WriteConcreteAddr ==
    [type |-> "mem", action |-> "write", addr |-> Concrete(134520848),
     data |-> FullySymbolic, ins_addr |-> 134513010]

ReadSymbolic ==
    [type |-> "mem", action |-> "read", addr |-> LowAndPageBitsSymbolic,
     data |-> Concrete(0), ins_addr |-> 134513020]

WriteSymbolicData ==
    [type |-> "mem", action |-> "write", addr |-> SparseBitsSymbolic,
     data |-> FullySymbolic, ins_addr |-> 134513030]

WriteConcreteData ==
    [type |-> "mem", action |-> "write", addr |-> LowAndPageBitsSymbolic,
     data |-> Concrete(1094795585), ins_addr |-> 134513040]

\* a read whose address can be moved into the flag page 0x4347c000
FlagPageBitsSymbolic == [sym |-> {2, 12, 30}, val |-> 55033856]

ReadNearFlag ==
    [type |-> "mem", action |-> "read", addr |-> FlagPageBitsSymbolic,
     data |-> Concrete(0), ins_addr |-> 134513050]

ActionSamples ==
    {FileAccess, WriteConcreteAddr, ReadSymbolic, WriteSymbolicData, WriteConcreteData}

RegSamples == {Concrete(134513955), LowByteSymbolic, FullySymbolic}

TriageStates ==
    [ip : RegSamples, bp : RegSamples, cons : {{}, ForcedTo(1094795585)},
     actions : SeqsUpTo(ActionSamples, MaxLogLen)]

\* what an exploration round hands to the next Crash object
CarriedSamples ==
    {[explore_steps |-> 0, constrained_addrs |-> <<>>, rop |-> "rop"],
     [explore_steps |-> 3, constrained_addrs |-> <<ReadSymbolic, WriteSymbolicData>>,
      rop |-> None]}

\* the object as __init__ leaves it right before self._triage_crash()
Untriaged(state, prev, carried) ==
    [state |-> state, prev |-> prev,
     explore_steps |-> carried.explore_steps,
     constrained_addrs |-> carried.constrained_addrs,
     rop |-> carried.rop,
     crash_type |-> None, violating_action |-> NoAction]

TriageInit ==
    /\ PureIdle
    /\ CrashIdle
    /\ HookIdle
    /\ t_pc = "init"
    /\ \E state \in TriageStates, plog \in SeqsUpTo(ActionSamples, MaxPrevLen),
          c1, c2 \in CarriedSamples :
          /\ c1.explore_steps = 0
          /\ t_first = Untriaged(state, [actions |-> plog], c1)
          /\ t_second = Untriaged(state, [actions |-> plog], c2)

TriageFirst ==
    /\ t_pc = "init"
    /\ t_first' = _triage_crash(t_first)
    /\ t_pc' = "first"
    /\ UNCHANGED <<t_second, pure_vars, crash_vars, hook_vars>>

TriageSecond ==
    /\ t_pc = "first"
    /\ t_second' = _triage_crash(t_second)
    /\ t_pc' = "both"
    /\ UNCHANGED <<t_first, pure_vars, crash_vars, hook_vars>>

TriageFirstAgain ==
    /\ t_pc = "both"
    /\ t_first' = _triage_crash(t_first)
    /\ t_pc' = "again"
    /\ UNCHANGED <<t_second, pure_vars, crash_vars, hook_vars>>

TriageNext == TriageFirst \/ TriageSecond \/ TriageFirstAgain

TriageSpec == TriageInit /\ [][TriageNext]_vars

Triaged == t_pc \in {"first", "both", "again"}

\* prev.state.log.actions followed by state.log.actions
FullLog(self) == self.prev.actions \o self.state.actions

SymbolicAccess(a) == a.type = "mem" /\ symbolic(a.addr)

\* C1: a symbolic instruction pointer gives IP_OVERWRITE when the
\* bit-control count equals the register width and PARTIAL_IP_OVERWRITE
\* otherwise, whatever the base pointer and the access logs hold, and no
\* violating action is recorded.
C1_SymbolicIpWins ==
    (Triaged /\ symbolic(t_first.state.ip)) =>
        /\ t_first.crash_type =
              IF _symbolic_control(t_first.state.ip) = ArchBits
              THEN IP_OVERWRITE ELSE PARTIAL_IP_OVERWRITE
        /\ t_first.violating_action = NoAction

\* symbolic ip together with a symbolic bp and a symbolic write in the log
C1_Witness ==
    /\ Triaged
    /\ t_first.state.ip = FullySymbolic
    /\ t_first.state.bp = FullySymbolic
    /\ t_first.state.actions = <<WriteSymbolicData>>
    /\ t_first.crash_type = IP_OVERWRITE

\* C2: with ip and bp concrete the violating action is the first access of
\* previous-block log followed by crashing-block log that is a memory
\* access with a symbolic address; a write of symbolic data gives
\* WRITE_WHAT_WHERE, a write of concrete data WRITE_X_WHERE, a read
\* ARBITRARY_READ; later accesses do not matter.
C2_FirstSymbolicAccess ==
    (Triaged /\ ~symbolic(t_first.state.ip) /\ ~symbolic(t_first.state.bp)) =>
        \A i \in DOMAIN FullLog(t_first) :
            (/\ SymbolicAccess(FullLog(t_first)[i])
             /\ \A j \in 1..(i - 1) : ~SymbolicAccess(FullLog(t_first)[j]))
            => /\ t_first.violating_action = FullLog(t_first)[i]
               /\ t_first.crash_type =
                     IF FullLog(t_first)[i].action = "write"
                     THEN IF symbolic(FullLog(t_first)[i].data)
                          THEN WRITE_WHAT_WHERE ELSE WRITE_X_WHERE
                     ELSE ARBITRARY_READ

\* a symbolic write of concrete data in the previous block is chosen although
\* the crashing block holds a symbolic read and a symbolic write of symbolic data
C2_Witness ==
    /\ Triaged
    /\ ~symbolic(t_first.state.ip) /\ ~symbolic(t_first.state.bp)
    /\ t_first.prev.actions = <<WriteConcreteData>>
    /\ t_first.state.actions = <<ReadSymbolic, WriteSymbolicData>>
    /\ t_first.crash_type = WRITE_X_WHERE
    /\ t_first.violating_action = WriteConcreteData

\* C3: with a concrete ip and a symbolic bp the result is BP_OVERWRITE when
\* the bit-control count of bp equals the register width and
\* PARTIAL_BP_OVERWRITE otherwise (8 of 32 bits symbolic is partial),
\* whatever the access logs hold.
C3_SymbolicBp ==
    (Triaged /\ ~symbolic(t_first.state.ip) /\ symbolic(t_first.state.bp)) =>
        /\ t_first.crash_type =
              IF _symbolic_control(t_first.state.bp) = ArchBits
              THEN BP_OVERWRITE ELSE PARTIAL_BP_OVERWRITE
        /\ (t_first.state.bp = LowByteSymbolic =>
                t_first.crash_type = PARTIAL_BP_OVERWRITE)

\* bp with 8 symbolic bits, and a symbolic read in the log
C3_Witness ==
    /\ Triaged
    /\ ~symbolic(t_first.state.ip)
    /\ t_first.state.bp = LowByteSymbolic
    /\ _symbolic_control(t_first.state.bp) = 8
    /\ t_first.state.actions = <<ReadSymbolic>>
    /\ t_first.crash_type = PARTIAL_BP_OVERWRITE

\* C5: two Crash objects with the same crash state get the same kind and
\* the same violating action although they differ in step count,
\* accumulated access list and rop handle, and triaging one of them a
\* second time changes nothing.
C5_TriageDeterministic ==
    (t_pc \in {"both", "again"}) =>
        /\ t_first.state = t_second.state /\ t_first.prev = t_second.prev
        /\ t_first.crash_type = t_second.crash_type
        /\ t_first.violating_action = t_second.violating_action

\* both objects triaged, the first twice, the carried fields differing and
\* the violating action being one the second object carries in its list
C5_Witness ==
    /\ t_pc = "again"
    /\ t_first.explore_steps # t_second.explore_steps
    /\ t_first.rop # t_second.rop
    /\ t_first.crash_type = ARBITRARY_READ
    /\ \E k \in DOMAIN t_second.constrained_addrs :
          t_second.constrained_addrs[k] = t_second.violating_action

\* ------------------------------------------------------------------------
\* The loaded image (self.project.loader) and the engine's crash states
\* ------------------------------------------------------------------------
\* main_bin.get_min_addr() / get_max_addr() and the segments of the ELF
\* objects in image order: text, data, bss
Image ==
    [min_addr |-> 134512640, max_addr |-> 134537216,
     segments |-> << [min_addr |-> 134512640, max_addr |-> 134520831, is_writable |-> FALSE],
                     [min_addr |-> 134520832, max_addr |-> 134524928, is_writable |-> TRUE],
                     [min_addr |-> 134529024, max_addr |-> 134537216, is_writable |-> TRUE] >>]

\* self.os = self.project.loader.main_bin.os
LoaderOs == "cgc"

StdinVars == {"file_/dev/stdin_0"}

FlagVars == {"cgc-flag-byte-0"}

\* the CGC flag page, 0x4347c000
MagicPage == 1128775680

\* symbolic bytes of state.memory: <<address, variable>>
MemRegions ==
    {<<134520864 + k, "file_/dev/stdin_0">> : k \in 0..7}
        \cup {<<134516752, "file_/dev/stdin_0">>, <<134516753, "file_/dev/stdin_0">>}
        \cup {<<MagicPage + 4, "cgc-flag-byte-0">>, <<134521088, "cgc-flag-byte-0">>}

\* a crash state as the tracer returns it, with the path before it
\* no range constraint on the violating address
NoRange == [lo |-> -1, hi |-> -1]

Traced(ip, bp, cons, flag_cons, mem, prev_actions, actions) ==
    [prev |-> [actions |-> prev_actions],
     state |-> [ip |-> ip, bp |-> bp, cons |-> cons, flag_cons |-> flag_cons,
                within |-> NoRange, mem |-> mem, actions |-> actions]]

ConcreteReg == Concrete(134513955)

TracerStates ==
    { Traced(FullySymbolic, ConcreteReg, {}, {}, {}, <<>>, <<WriteSymbolicData>>),
      Traced(LowByteSymbolic, FullySymbolic, {}, {}, {}, <<>>, <<>>),
      Traced(ConcreteReg, FullySymbolic, {}, {}, MemRegions, <<ReadSymbolic>>, <<>>),
      Traced(ConcreteReg, LowByteSymbolic, {}, {}, {}, <<>>, <<>>),
      Traced(ConcreteReg, ConcreteReg, {}, {}, MemRegions, <<FileAccess>>, <<WriteConcreteAddr>>),
      Traced(ConcreteReg, ConcreteReg, {}, {}, MemRegions, <<>>, <<ReadSymbolic>>),
      Traced(ConcreteReg, ConcreteReg, {<<12, 1>>}, {}, {}, <<ReadSymbolic>>, <<WriteSymbolicData>>),
      Traced(ConcreteReg, ConcreteReg, {<<4, 1>>, <<12, 1>>, <<13, 1>>}, {}, MemRegions,
             <<>>, <<ReadSymbolic>>),
      Traced(ConcreteReg, ConcreteReg, {}, {<<4, 1>>, <<13, 1>>}, {}, <<>>, <<ReadSymbolic>>),
      Traced(ConcreteReg, ConcreteReg, {}, {}, {}, <<>>, <<WriteConcreteAddr, WriteSymbolicData>>),
      Traced(ConcreteReg, ConcreteReg, {<<13, 1>>}, {}, {}, <<>>, <<WriteSymbolicData>>),
      Traced(ConcreteReg, ConcreteReg, {<<14, 0>>}, {}, MemRegions, <<WriteSymbolicData>>,
             <<ReadSymbolic>>),
      Traced(ConcreteReg, ConcreteReg, {<<12, 1>>, <<13, 1>>}, {}, {}, <<>>,
             <<WriteConcreteData, ReadSymbolic>>),
      Traced(ConcreteReg, ConcreteReg, {}, {<<2, 1>>}, MemRegions, <<>>, <<ReadNearFlag>>) }

\* what running an input can give: no crash seen by the concrete runner, no
\* crash state from the tracer, or a crash state
TraceOutcomes ==
    {[crashed |-> FALSE, by |-> "runner"], [crashed |-> FALSE, by |-> "tracer"]}
        \cup {[crashed |-> TRUE, by |-> "tracer", traced |-> t] : t \in TracerStates}

\* ------------------------------------------------------------------------
\* Crash.__init__
\* ------------------------------------------------------------------------
NoRop == [made_at |-> -1]

\* self.project.analyses.ROP() built by the object constructed at this step
NewRop(explore_steps) == [made_at |-> explore_steps]

NoInput == [kind |-> "None", forced |-> {}, within |-> NoRange]

\* the input the caller hands to the first Crash object
GivenInput == [kind |-> "given", forced |-> {}, within |-> NoRange]

NoState ==
    [ip |-> Concrete(0), bp |-> Concrete(0), cons |-> {}, flag_cons |-> {},
     within |-> NoRange, mem |-> {}, actions |-> <<>>]

\* a Crash object before __init__ ran
Blank ==
    [crash |-> NoInput, constrained_addrs |-> <<>>, explore_steps |-> 0,
     reconstrained_flag |-> FALSE, rop |-> NoRop,
     state |-> NoState, prev |-> [actions |-> <<>>],
     symbolic_mem |-> EmptyDict, flag_mem |-> EmptyDict,
     crash_type |-> None, violating_action |-> NoAction]

RECURSIVE SetToSortedSeq(_)
SetToSortedSeq(S) ==
    IF S = {} THEN <<>>
    ELSE LET m == CHOOSE x \in S : \A y \in S : x <= y
         IN <<m>> \o SetToSortedSeq(S \ {m})

\* lines 138-142: the symbolic addresses outside the flag page whose byte
\* depends on a variable of the given family
FilteredWrites(state, family) ==
    LET memory_writes == SetToSortedSeq({b[1] : b \in state.mem})
        outside == SelectSeq(memory_writes, LAMBDA m : m \div PAGE # MagicPage \div PAGE)
    IN SelectSeq(outside, LAMBDA m : \E b \in state.mem : b[1] = m /\ b[2] \in family)

\* self._segment(user_writes) and self._segment(flag_writes) for every crash
\* state the engine can return
SegmentedWrites ==
    [state \in {t.state : t \in TracerStates} |->
        [symbolic_mem |-> _segment(FilteredWrites(state, StdinVars)),
         flag_mem |-> _segment(FilteredWrites(state, FlagVars))]]

\* line 52: the step check of __init__
TooManyStepsTakenAtBound(explore_steps) == explore_steps >= MaxSteps

TooManyStepsTakenLate(explore_steps) == explore_steps > MaxSteps + 1

TooManyStepsTaken(explore_steps) == explore_steps > MaxSteps

\* __init__ run on the object self (Blank for a new object, the live object
\* when an exploration method calls self.__init__); outcome is what the
\* engine does with the input
InitTriagesEveryInput(self, crash, constrained_addrs, explore_steps, use_rop, angrop_object, outcome) ==
    LET s1 == [self EXCEPT !.crash = crash,
                           !.constrained_addrs = constrained_addrs,
                           !.explore_steps = explore_steps]
        s2 == [s1 EXCEPT !.reconstrained_flag = FALSE,
                         !.rop = IF use_rop
                                 THEN IF angrop_object # NoRop THEN angrop_object
                                      ELSE NewRop(explore_steps)
                                 ELSE NoRop]
        state == outcome.traced.state
        s3 == [s2 EXCEPT !.prev = outcome.traced.prev,
                         !.state = state,
                         !.symbolic_mem = SegmentedWrites[state].symbolic_mem,
                         !.flag_mem = SegmentedWrites[state].flag_mem,
                         !.crash_type = None,
                         !.violating_action = NoAction]
    IN IF TooManyStepsTaken(explore_steps)
       THEN [self |-> s1, raised |-> TooManySteps, traces |-> 0, triaged |-> 0]
       ELSE IF ~outcome.crashed
       THEN [self |-> _triage_crash([s2 EXCEPT !.crash_type = None,
                                               !.violating_action = NoAction]),
             raised |-> NonCrashingInput, traces |-> 1, triaged |-> 1]
       ELSE [self |-> _triage_crash(s3), raised |-> None, traces |-> 1, triaged |-> 1]

InitKeepsViolatingAction(self, crash, constrained_addrs, explore_steps, use_rop, angrop_object, outcome) ==
    LET s1 == [self EXCEPT !.crash = crash,
                           !.constrained_addrs = constrained_addrs,
                           !.explore_steps = explore_steps]
        s2 == [s1 EXCEPT !.reconstrained_flag = FALSE,
                         !.rop = IF use_rop
                                 THEN IF angrop_object # NoRop THEN angrop_object
                                      ELSE NewRop(explore_steps)
                                 ELSE NoRop]
        state == outcome.traced.state
        s3 == [s2 EXCEPT !.prev = outcome.traced.prev,
                         !.state = state,
                         !.symbolic_mem = SegmentedWrites[state].symbolic_mem,
                         !.flag_mem = SegmentedWrites[state].flag_mem,
                         !.crash_type = None]
    IN IF TooManyStepsTaken(explore_steps)
       THEN [self |-> s1, raised |-> TooManySteps, traces |-> 0, triaged |-> 0]
       ELSE IF ~outcome.crashed
       THEN [self |-> s2, raised |-> NonCrashingInput, traces |-> 1, triaged |-> 0]
       ELSE [self |-> _triage_crash(s3), raised |-> None, traces |-> 1, triaged |-> 1]

__init__(self, crash, constrained_addrs, explore_steps, use_rop, angrop_object, outcome) ==
    LET s1 == [self EXCEPT !.crash = crash,
                           !.constrained_addrs = constrained_addrs,
                           !.explore_steps = explore_steps]
        s2 == [s1 EXCEPT !.reconstrained_flag = FALSE,
                         !.rop = IF use_rop
                                 THEN IF angrop_object # NoRop THEN angrop_object
                                      ELSE NewRop(explore_steps)
                                 ELSE NoRop]
        state == outcome.traced.state
        s3 == [s2 EXCEPT !.prev = outcome.traced.prev,
                         !.state = state,
                         !.symbolic_mem = SegmentedWrites[state].symbolic_mem,
                         !.flag_mem = SegmentedWrites[state].flag_mem,
                         !.crash_type = None,
                         !.violating_action = NoAction]
    IN IF TooManyStepsTaken(explore_steps)
       THEN [self |-> s1, raised |-> TooManySteps, traces |-> 0, triaged |-> 0]
       ELSE IF ~outcome.crashed
       THEN [self |-> s2, raised |-> NonCrashingInput, traces |-> 1, triaged |-> 0]
       ELSE [self |-> _triage_crash(s3), raised |-> None, traces |-> 1, triaged |-> 1]

\* Crash.exploitable
exploitableAlsoRead(self) ==
    self.crash_type \in {IP_OVERWRITE, PARTIAL_IP_OVERWRITE, BP_OVERWRITE,
                         PARTIAL_BP_OVERWRITE, WRITE_WHAT_WHERE, WRITE_X_WHERE,
                         ARBITRARY_READ}

exploitable(self) ==
    self.crash_type \in {IP_OVERWRITE, PARTIAL_IP_OVERWRITE, BP_OVERWRITE,
                         PARTIAL_BP_OVERWRITE, WRITE_WHAT_WHERE, WRITE_X_WHERE}

\* Crash.explorable
explorableAlsoIp(self) ==
    self.crash_type \in {ARBITRARY_READ, WRITE_WHAT_WHERE, WRITE_X_WHERE, IP_OVERWRITE}

explorable(self) ==
    self.crash_type \in {ARBITRARY_READ, WRITE_WHAT_WHERE, WRITE_X_WHERE}

\* Crash._reconstrain_flag_data: the constraints that mention flag bytes are
\* re-added with the flag bytes replaced by their concrete values
_reconstrain_flag_data(self) ==
    IF ~self.reconstrained_flag
    THEN [self EXCEPT !.state.cons = self.state.cons \cup self.state.flag_cons,
                      !.state.flag_cons = {},
                      !.reconstrained_flag = TRUE]
    ELSE self

\* ------------------------------------------------------------------------
\* Crash.explore and the candidate searches
\* ------------------------------------------------------------------------
\* range(a, b, step)
PyRange(a, b, step) ==
    IF b <= a THEN <<>>
    ELSE [k \in 1..(((b - a) + step - 1) \div step) |-> a + (k - 1) * step]

\* index of the first candidate from index i on for which addr == candidate
\* is satisfiable, 0 when there is none
RECURSIVE FirstSatisfiable(_, _, _, _)
FirstSatisfiable(cons, addr, candidates, i) ==
    IF i > Len(candidates) THEN 0
    ELSE IF SatisfiableEq(cons, addr, candidates[i]) THEN i
    ELSE FirstSatisfiable(cons, addr, candidates, i + 1)

\* the orders sorted(symbolic_mem.items(), key=length, reverse=True) can give:
\* longest first, segments of equal length in the order the dict yields them
RegionOrders(symbolic_mem) ==
    LET starts == DOMAIN symbolic_mem
        n == Cardinality(starts)
    IN {order \in [1..n -> starts] :
           /\ \A i, j \in 1..n : i # j => order[i] # order[j]
           /\ \A i \in 1..(n - 1) : symbolic_mem[order[i]] >= symbolic_mem[order[i + 1]]}

\* lines 277-306: the candidate list and the walk over it
ReadSearchPagesFirst(self, order) ==
    LET addr == self.violating_action.addr
        min_read == SolverMin(self.state.cons, addr)
        max_read == SolverMax(self.state.cons, addr)
        in_range(x) == (min_read <= x) /\ (x <= max_read)
        largest_regions == SelectSeq(order, in_range)
        pages == SelectSeq(PyRange(Image.min_addr, Image.max_addr, PAGE), in_range)
        candidates == pages \o largest_regions
        k == FirstSatisfiable(self.state.cons, addr, candidates, 1)
    IN [min |-> min_read, max |-> max_read, candidates |-> candidates,
        found |-> k # 0,
        addr |-> IF k # 0 THEN candidates[k] ELSE -1]

ReadSearch(self, order) ==
    LET addr == self.violating_action.addr
        min_read == SolverMin(self.state.cons, addr)
        max_read == SolverMax(self.state.cons, addr)
        in_range(x) == (min_read <= x) /\ (x <= max_read)
        largest_regions == SelectSeq(order, in_range)
        pages == SelectSeq(PyRange(Image.min_addr, Image.max_addr, PAGE), in_range)
        candidates == largest_regions \o pages
        k == FirstSatisfiable(self.state.cons, addr, candidates, 1)
    IN [min |-> min_read, max |-> max_read, candidates |-> candidates,
        found |-> k # 0,
        addr |-> IF k # 0 THEN candidates[k] ELSE -1]

\* lines 351-359: the loops over segments and their pages; constraint is the
\* page of the pending equality, -1 for None
WriteLoopFirstPage(cons, addr, segs, i, write_addr, constraint) ==
    IF segs = <<>> THEN [write_addr |-> write_addr, constraint |-> constraint]
    ELSE [write_addr |-> segs[1].min_addr, constraint |-> segs[1].min_addr]

RECURSIVE WriteLoop(_, _, _, _, _, _)
WriteLoop(cons, addr, segs, i, write_addr, constraint) ==
    IF i > Len(segs) THEN [write_addr |-> write_addr, constraint |-> constraint]
    ELSE LET pages == PyRange(segs[i].min_addr, segs[i].max_addr, PAGE)
             k == FirstSatisfiable(cons, addr, pages, 1)
         IN IF pages = <<>>
            THEN WriteLoop(cons, addr, segs, i + 1, write_addr, constraint)
            ELSE IF k # 0
            THEN WriteLoop(cons, addr, segs, i + 1, pages[k], pages[k])
            ELSE WriteLoop(cons, addr, segs, i + 1, pages[Len(pages)], -1)

\* lines 336-362
WriteSearch(self) ==
    LET addr == self.violating_action.addr
        min_write == SolverMin(self.state.cons, addr)
        max_write == SolverMax(self.state.cons, addr)
        writable == SelectSeq(Image.segments, LAMBDA seg : seg.is_writable)
        segs == SelectSeq(writable,
                          LAMBDA seg : (seg.min_addr <= max_write) /\ (seg.max_addr >= min_write))
        r == WriteLoop(self.state.cons, addr, segs, 1, -1, -1)
    IN [min |-> min_write, max |-> max_write, candidates |-> segs,
        found |-> r.constraint # -1,
        addr |-> r.constraint]

\* ------------------------------------------------------------------------
\* Crash.exploit and Crash.yield_exploits
\* ------------------------------------------------------------------------
NoFactory == [class |-> "None", blacklist_techniques |-> {}, initialized |-> FALSE]

\* the keyword arguments a caller passes on: with or without its own
\* blacklist_techniques
KwargsSamples ==
    {[has_blacklist |-> FALSE, blacklist_techniques |-> {}],
     [has_blacklist |-> TRUE, blacklist_techniques |-> {"rop_leak_memory"}]}

\* CGCExploitFactory(self, **kwargs) / ExploitFactory(self, **kwargs)
NewFactory(class, kwargs) ==
    [class |-> class, blacklist_techniques |-> kwargs.blacklist_techniques,
     initialized |-> FALSE]

\* factory.initialize(): the factory tries its techniques and keeps what works
initialize(factory) == [factory EXCEPT !.initialized = TRUE]

\* Crash._prepare_exploit_factory
_prepare_exploit_factory(self, blacklist_symbolic_explore, kwargs) ==
    LET kw == IF blacklist_symbolic_explore
              THEN [has_blacklist |-> TRUE,
                    blacklist_techniques |->
                        kwargs.blacklist_techniques \cup {"explore_for_exploit"}]
              ELSE kwargs
    IN IF ~exploitable(self)
       THEN [raised |-> NonExploitable, factory |-> NoFactory]
       ELSE [raised |-> None,
             factory |-> IF LoaderOs = "cgc" THEN NewFactory("CGCExploitFactory", kw)
                         ELSE NewFactory("ExploitFactory", kw)]

\* self.state.posix.dumps(0): a concrete input that satisfies the constraints
Dumps(state) == [kind |-> "explored", forced |-> state.cons, within |-> state.within]

\* what a call reports: the exception it raised, the feasible range and the
\* address of the candidate search, the input it serialized, what it wrote
\* to path_file
Report(op, raised, search, new_input, written) ==
    [op |-> op, raised |-> raised, min |-> search.min, max |-> search.max,
     addr |-> search.addr, new_input |-> new_input, written |-> written,
     factory |-> NoFactory]

NoSearch == [min |-> -1, max |-> -1, addr |-> -1]

\* lines 308-327 and 364-382: commit the equality, serialize, persist and
\* re-initialize the object with the new input
CommitAndRetracePrepends(self, search, path_file, outcome) ==
    LET constrained == [self EXCEPT !.state.cons =
                            AddEq(self.state.cons, self.violating_action.addr, search.addr)]
        new_input == Dumps(constrained.state)
        use_rop == constrained.rop # NoRop
        r == __init__(constrained, new_input,
                      <<constrained.violating_action>> \o constrained.constrained_addrs,
                      constrained.explore_steps + 1, use_rop, constrained.rop, outcome)
    IN [self |-> r.self, traces |-> r.traces, triaged |-> r.triaged,
        report |-> Report("explore", r.raised, search, new_input,
                          IF path_file # None THEN new_input ELSE NoInput)]

CommitAndRetrace(self, search, path_file, outcome) ==
    LET constrained == [self EXCEPT !.state.cons =
                            AddEq(self.state.cons, self.violating_action.addr, search.addr)]
        new_input == Dumps(constrained.state)
        use_rop == constrained.rop # NoRop
        r == __init__(constrained, new_input,
                      Append(constrained.constrained_addrs, constrained.violating_action),
                      constrained.explore_steps + 1, use_rop, constrained.rop, outcome)
    IN [self |-> r.self, traces |-> r.traces, triaged |-> r.triaged,
        report |-> Report("explore", r.raised, search, new_input,
                          IF path_file # None THEN new_input ELSE NoInput)]

\* Crash.explore up to the end of the candidate search (lines 221-231,
\* 277-306, 336-362): the object after _reconstrain_flag_data, the search
\* and the exception raised so far
ExploreSearchCommitsFirst(self, order) ==
    IF ~explorable(self)
    THEN [self |-> self, raised |-> CannotExplore, search |-> NoSearch]
    ELSE LET s1 == _reconstrain_flag_data(self)
             search == IF s1.crash_type \in {ARBITRARY_READ}
                       THEN ReadSearch(s1, order) ELSE WriteSearch(s1)
             tried == [s1 EXCEPT !.state.cons =
                            AddEq(s1.state.cons, s1.violating_action.addr, search.min)]
         IN IF s1.violating_action = NoAction
            THEN [self |-> s1, raised |-> AssertionError, search |-> NoSearch]
            ELSE [self |-> IF search.found THEN s1 ELSE tried,
                  raised |-> IF search.found THEN None
                             ELSE IF s1.crash_type \in {ARBITRARY_READ}
                                  THEN NoReadAddress ELSE NoWriteSegment,
                  search |-> [min |-> search.min, max |-> search.max, addr |-> search.addr]]

ExploreSearch(self, order) ==
    IF ~explorable(self)
    THEN [self |-> self, raised |-> CannotExplore, search |-> NoSearch]
    ELSE LET s1 == _reconstrain_flag_data(self)
             search == IF s1.crash_type \in {ARBITRARY_READ}
                       THEN ReadSearch(s1, order) ELSE WriteSearch(s1)
         IN IF s1.violating_action = NoAction
            THEN [self |-> s1, raised |-> AssertionError, search |-> NoSearch]
            ELSE [self |-> s1,
                  raised |-> IF search.found THEN None
                             ELSE IF s1.crash_type \in {ARBITRARY_READ}
                                  THEN NoReadAddress ELSE NoWriteSegment,
                  search |-> [min |-> search.min, max |-> search.max, addr |-> search.addr]]

\* ------------------------------------------------------------------------
\* The life of one Crash object
\* ------------------------------------------------------------------------
Init ==
    /\ PureIdle
    /\ TriageIdle
    /\ HookIdle
    /\ pc = "new"
    /\ obj = Blank
    /\ n_traces = 0
    /\ n_triaged = 0
    /\ last = Report("None", None, NoSearch, NoInput, NoInput)

\* Crash(binary, crash, use_rop=...)
Construct ==
    /\ pc = "new"
    /\ \E use_rop \in BOOLEAN, outcome \in TraceOutcomes :
          LET r == __init__(Blank, GivenInput, <<>>, 0, use_rop, NoRop, outcome)
          IN /\ obj' = IF r.raised = None THEN r.self ELSE Blank
             /\ pc' = IF r.raised = None THEN "live" ELSE "failed"
             /\ n_traces' = n_traces + r.traces
             /\ n_triaged' = n_triaged + r.triaged
             /\ last' = Report("__init__", r.raised, NoSearch, NoInput, NoInput)
    /\ UNCHANGED <<pure_vars, triage_vars, hook_vars>>

\* crash.explore(path_file): the whole call; the engine is asked to run the
\* new input only when a candidate was committed.  An object whose __init__
\* raised, at construction or when explore re-initializes it, is not used
\* again.
Explore ==
    /\ pc = "live"
    /\ \E order \in RegionOrders(obj.symbolic_mem) :
       \E found \in {ExploreSearch(obj, order)} :
             IF found.raised # None
             THEN /\ obj' = found.self
                  /\ last' = Report("explore", found.raised, found.search, NoInput, NoInput)
                  /\ UNCHANGED <<pc, n_traces, n_triaged>>
             ELSE \E path_file \in {None, "path_file"}, outcome \in TraceOutcomes :
                  \E r \in {CommitAndRetrace(found.self, found.search, path_file, outcome)} :
                        /\ obj' = r.self
                        /\ pc' = IF r.report.raised = None THEN "live" ELSE "failed"
                        /\ n_traces' = n_traces + r.traces
                        /\ n_triaged' = n_triaged + r.triaged
                        /\ last' = r.report
    /\ UNCHANGED <<pure_vars, triage_vars, hook_vars>>

\* Crash._get_state_pointing_to_flag: a copy of the state that carries the
\* two range constraints, when they are satisfiable
_get_state_pointing_to_flag(state, violating_addr) ==
    LET cgc_magic_page_addr == MagicPage
    IN IF SatisfiableRange(state.cons, violating_addr,
                           cgc_magic_page_addr, cgc_magic_page_addr + PAGE - 4)
       THEN [raised |-> None,
             cp |-> [state EXCEPT !.within = [lo |-> cgc_magic_page_addr,
                                              hi |-> cgc_magic_page_addr + PAGE - 4]]]
       ELSE [raised |-> NoFlagPointer, cp |-> state]

\* Crash.point_to_flag
PointToFlagInPlace(self, path_file) ==
    IF self.crash_type \notin {ARBITRARY_READ}
    THEN [self |-> self, raised |-> NotArbitraryRead, new_input |-> NoInput,
          written |-> NoInput]
    ELSE LET s1 == _reconstrain_flag_data(self)
             r == _get_state_pointing_to_flag(s1.state, s1.violating_action.addr)
         IN IF r.raised # None
            THEN [self |-> s1, raised |-> r.raised, new_input |-> NoInput,
                  written |-> NoInput]
            ELSE [self |-> [s1 EXCEPT !.state = r.cp], raised |-> None,
                  new_input |-> Dumps(r.cp),
                  written |-> IF path_file # None THEN Dumps(r.cp) ELSE NoInput]

PointToFlagDumpsFirst(self, path_file) ==
    IF self.crash_type \notin {ARBITRARY_READ}
    THEN [self |-> self, raised |-> NotArbitraryRead, new_input |-> NoInput,
          written |-> NoInput]
    ELSE LET s1 == _reconstrain_flag_data(self)
             r == _get_state_pointing_to_flag(s1.state, s1.violating_action.addr)
         IN [self |-> s1, raised |-> r.raised, new_input |-> Dumps(r.cp),
             written |-> IF path_file # None THEN Dumps(r.cp) ELSE NoInput]

point_to_flag(self, path_file) ==
    IF self.crash_type \notin {ARBITRARY_READ}
    THEN [self |-> self, raised |-> NotArbitraryRead, new_input |-> NoInput,
          written |-> NoInput]
    ELSE LET s1 == _reconstrain_flag_data(self)
             r == _get_state_pointing_to_flag(s1.state, s1.violating_action.addr)
         IN IF r.raised # None
            THEN [self |-> s1, raised |-> r.raised, new_input |-> NoInput,
                  written |-> NoInput]
            ELSE [self |-> s1, raised |-> None, new_input |-> Dumps(r.cp),
                  written |-> IF path_file # None THEN Dumps(r.cp) ELSE NoInput]

\* crash.point_to_flag(path_file)
PointToFlag ==
    /\ pc = "live"
    /\ \E path_file \in {None, "path_file"} :
       \E r \in {point_to_flag(obj, path_file)} :
          /\ obj' = r.self
          /\ last' = Report("point_to_flag", r.raised, NoSearch, r.new_input, r.written)
    /\ UNCHANGED <<pc, n_traces, n_triaged, pure_vars, triage_vars, hook_vars>>

\* crash.exploit(blacklist_symbolic_explore, **kwargs)
Exploit ==
    /\ pc = "live"
    /\ \E blacklist_symbolic_explore \in BOOLEAN, kwargs \in KwargsSamples :
          LET r == _prepare_exploit_factory(obj, blacklist_symbolic_explore, kwargs)
          IN last' = [Report("exploit", r.raised, NoSearch, NoInput, NoInput)
                        EXCEPT !.factory = IF r.raised = None THEN initialize(r.factory)
                                           ELSE NoFactory]
    /\ UNCHANGED <<pc, obj, n_traces, n_triaged, pure_vars, triage_vars, hook_vars>>

\* for exploit in crash.yield_exploits(...): the body of the generator runs
\* when the caller asks for the first exploit
YieldExploits ==
    /\ pc = "live"
    /\ \E blacklist_symbolic_explore \in BOOLEAN, kwargs \in KwargsSamples :
          LET r == _prepare_exploit_factory(obj, blacklist_symbolic_explore, kwargs)
          IN last' = [Report("yield_exploits", r.raised, NoSearch, NoInput, NoInput)
                        EXCEPT !.factory = r.factory]
    /\ UNCHANGED <<pc, obj, n_traces, n_triaged, pure_vars, triage_vars, hook_vars>>

Next == Construct \/ Explore

Spec == Init /\ [][Next]_vars

\* ------------------------------------------------------------------------
\* Crash.quick_triage
\* ------------------------------------------------------------------------
\* r.memory.permissions(addr): SimMemoryError for an unmapped address, else
\* the permission bits, which may be a symbolic expression
Unmapped == [mapped |-> FALSE, symbolic |-> FALSE, bits |-> 0]

Perms(bits) == [mapped |-> TRUE, symbolic |-> FALSE, bits |-> bits]

SymbolicPerms == [mapped |-> TRUE, symbolic |-> TRUE, bits |-> 0]

\* x & 0xff000000
HighByte(x) == (x \div 16777216) * 16777216

\* (perms & bit) == bit
HasBit(perms, bit) == (perms.bits \div bit) % 2 = 1

\* lines 579-588: the walk over the 16 MiB regions of the image
PartialLoopFirstRegion(eip, base, max_addr) ==
    IF base < max_addr /\ HighByte(eip) = base THEN PARTIAL_IP_OVERWRITE ELSE IP_OVERWRITE

RECURSIVE PartialLoop(_, _, _)
PartialLoop(eip, base, max_addr) ==
    IF base < max_addr
    THEN IF HighByte(eip) = base THEN PARTIAL_IP_OVERWRITE
         ELSE PartialLoop(eip, base + 16777216, max_addr)
    ELSE IP_OVERWRITE

Verdict(eip, posit, stepped) ==
    [raised |-> None, pc |-> eip, verdict |-> posit, stepped |-> stepped]

QuickRaise(exception, stepped) ==
    [raised |-> exception, pc |-> -1, verdict |-> None, stepped |-> stepped]

\* lines 609-643: the loop over the actions of the executed instruction;
\* posit is None until a read or write was seen
RECURSIVE QuickLoopUnmappedUncontrolled(_, _, _, _)
QuickLoopUnmappedUncontrolled(eip, actions, i, posit) ==
    IF i > Len(actions)
    THEN Verdict(eip, IF posit = None THEN "unknown" ELSE posit, 1)
    ELSE LET a == actions[i]
         IN IF a.type # "mem" THEN QuickLoopUnmappedUncontrolled(eip, actions, i + 1, posit)
            ELSE IF a.target < 4096 THEN Verdict(eip, NULL_DEREFERENCE, 1)
            ELSE IF a.action = "write"
            THEN IF a.target < 1048576 THEN Verdict(eip, UNCONTROLLED_WRITE, 1)
                 ELSE IF ~a.perms.mapped \/ (~a.perms.symbolic /\ ~HasBit(a.perms, 2))
                 THEN Verdict(eip, UNCONTROLLED_WRITE, 1)
                 ELSE QuickLoopUnmappedUncontrolled(eip, actions, i + 1, WRITE_WHAT_WHERE)
            ELSE IF a.action = "read"
            THEN QuickLoopUnmappedUncontrolled(eip, actions, i + 1, ARBITRARY_READ)
            ELSE QuickRaise(UnrecognizedAction, 1)

RECURSIVE QuickLoop(_, _, _, _)
QuickLoop(eip, actions, i, posit) ==
    IF i > Len(actions)
    THEN Verdict(eip, IF posit = None THEN "unknown" ELSE posit, 1)
    ELSE LET a == actions[i]
         IN IF a.type # "mem" THEN QuickLoop(eip, actions, i + 1, posit)
            ELSE IF a.target < 4096 THEN Verdict(eip, NULL_DEREFERENCE, 1)
            ELSE IF a.action = "write"
            THEN IF a.target < 1048576 THEN Verdict(eip, UNCONTROLLED_WRITE, 1)
                 ELSE IF a.perms.mapped /\ ~a.perms.symbolic /\ ~HasBit(a.perms, 2)
                 THEN Verdict(eip, UNCONTROLLED_WRITE, 1)
                 ELSE QuickLoop(eip, actions, i + 1, WRITE_WHAT_WHERE)
            ELSE IF a.action = "read"
            THEN QuickLoop(eip, actions, i + 1, ARBITRARY_READ)
            ELSE QuickRaise(UnrecognizedAction, 1)

\* Crash.quick_triage(binary, crash): r is what tracer.Runner reports, stepped
\* counts the instructions executed by pth.step
QuickTriagePermsFirst(r) ==
    IF ~r.crash_mode THEN QuickRaise(NonCrashingInput, 0)
    ELSE IF r.os # "cgc" THEN QuickRaise(NotCgc, 0)
    ELSE IF r.pc_perms.mapped /\ ~r.pc_perms.symbolic /\ ~HasBit(r.pc_perms, 4)
    THEN Verdict(r.eip, UNCONTROLLED_IP_OVERWRITE, 0)
    ELSE IF r.eip < 4096 THEN Verdict(r.eip, NULL_DEREFERENCE, 0)
    ELSE IF ~r.pc_perms.mapped
    THEN Verdict(r.eip, PartialLoop(r.eip, HighByte(r.image.min_addr), r.image.max_addr), 0)
    ELSE QuickLoop(r.eip, r.actions, 1, None)

quick_triage(r) ==
    IF ~r.crash_mode THEN QuickRaise(NonCrashingInput, 0)
    ELSE IF r.os # "cgc" THEN QuickRaise(NotCgc, 0)
    ELSE IF r.eip < 4096 THEN Verdict(r.eip, NULL_DEREFERENCE, 0)
    ELSE IF r.pc_perms.mapped /\ ~r.pc_perms.symbolic /\ ~HasBit(r.pc_perms, 4)
    THEN Verdict(r.eip, UNCONTROLLED_IP_OVERWRITE, 0)
    ELSE IF ~r.pc_perms.mapped
    THEN Verdict(r.eip, PartialLoop(r.eip, HighByte(r.image.min_addr), r.image.max_addr), 0)
    ELSE QuickLoop(r.eip, r.actions, 1, None)

\* what the executed instruction can produce: a register access and memory
\* accesses with their concrete target and the permissions of the target
Access(type, action, target, perms) ==
    [type |-> type, action |-> action, target |-> target, perms |-> perms]

AccessSamples ==
    { Access("reg", "write", 0, Unmapped),
      Access("mem", "read", 16, Unmapped),
      Access("mem", "read", 134520848, Perms(3)),
      Access("mem", "write", 16, Unmapped),
      Access("mem", "write", 524288, Unmapped),
      Access("mem", "write", 134516736, Perms(5)),
      Access("mem", "write", 134520848, Perms(3)),
      Access("mem", "write", 1094795585, Unmapped),
      Access("mem", "write", 134529024, SymbolicPerms),
      Access("mem", "exec", 16, Unmapped),
      Access("mem", "exec", 134520848, Perms(3)) }

\* crashing program counters: below the first page, in the text segment, in
\* the 16 MiB region of the image, in the region after it, far from it, on
\* the stack
PcSamples == {512, 134513920, 150994688, 150994944, 1094795585, 2147475456}

PcPermSamples == {Unmapped, Perms(5), Perms(3), SymbolicPerms}

RegSnapshots == {[eax |-> 0, esp |-> 2147475456], [eax |-> 1094795585, esp |-> 16]}

ImageSamples ==
    {[min_addr |-> Image.min_addr, max_addr |-> Image.max_addr],
     [min_addr |-> 150990848, max_addr |-> 167772160]}

RunnerSamples ==
    {[crash_mode |-> FALSE, os |-> "cgc"], [crash_mode |-> TRUE, os |-> "unix"],
     [crash_mode |-> TRUE, os |-> "cgc"]}

QuickInputs ==
    { [fn |-> "quick_triage", crash_mode |-> run.crash_mode, os |-> run.os, eip |-> eip,
       pc_perms |-> pc_perms, reg_vals |-> reg_vals, image |-> image, actions |-> actions] :
          run \in RunnerSamples, eip \in PcSamples, pc_perms \in PcPermSamples,
          reg_vals \in RegSnapshots, image \in ImageSamples,
          actions \in UNION {[1..n -> AccessSamples] : n \in 0..MaxQuickLog} }

QuickInit ==
    /\ TriageIdle
    /\ CrashIdle
    /\ HookIdle
    /\ fn_pc = "call"
    /\ fn_out = None
    /\ fn_in \in QuickInputs

CallQuickTriage ==
    /\ fn_pc = "call"
    /\ fn_in.fn = "quick_triage"
    /\ fn_out' = quick_triage(fn_in)
    /\ fn_pc' = "done"
    /\ UNCHANGED <<fn_in, triage_vars, crash_vars, hook_vars>>

QuickNext == CallQuickTriage

QuickSpec == QuickInit /\ [][QuickNext]_vars

QuickDone == fn_pc = "done" /\ fn_in.fn = "quick_triage"

\* a crashing input on a CGC binary
QuickSupported == QuickDone /\ fn_in.crash_mode /\ fn_in.os = "cgc"

\* C14: for a crashing input on a CGC binary a program counter below 0x1000
\* gives NULL_DEREFERENCE with that pc, whatever the registers, the
\* permissions, the image and the instruction at pc are, and no instruction
\* is executed
C14_LowPcIsNullDereference ==
    (QuickSupported /\ fn_in.eip < 4096) =>
        /\ fn_out.raised = None
        /\ fn_out.verdict = NULL_DEREFERENCE
        /\ fn_out.pc = fn_in.eip
        /\ fn_out.stepped = 0

\* pc = 0x200 on a mapped executable page, with registers and an instruction
\* that would otherwise give another verdict
C14_Witness ==
    /\ QuickSupported
    /\ fn_in.eip = 512
    /\ fn_in.pc_perms = Perms(3)
    /\ fn_in.reg_vals.eax = 1094795585
    /\ fn_in.image.min_addr # Image.min_addr
    /\ Len(fn_in.actions) = 1 /\ fn_in.actions[1].action = "exec"
    /\ fn_out.verdict = NULL_DEREFERENCE

\* the executed instruction produced a memory access that is neither a read
\* nor a write
QuickSteppedOddAccess ==
    /\ QuickSupported
    /\ fn_in.eip >= 4096
    /\ fn_in.pc_perms.mapped /\ (fn_in.pc_perms.symbolic \/ HasBit(fn_in.pc_perms, 4))
    /\ \E i \in 1..Len(fn_in.actions) :
          fn_in.actions[i].type = "mem" /\ fn_in.actions[i].action \notin {"read", "write"}

\* C15: whenever the executed instruction produces a memory access that is
\* neither a read nor a write, quick_triage ends in the unexpected-access-
\* kind error and returns no verdict, whatever the target of that access and
\* whatever the other accesses are
C15_OddAccessIsFatal ==
    QuickSteppedOddAccess =>
        /\ fn_out.raised = UnrecognizedAction
        /\ fn_out.verdict = None

\* step 3 is reached: pc is mapped and not known to lack the execute bit
QuickStepped ==
    /\ QuickSupported
    /\ fn_in.eip >= 4096
    /\ fn_in.pc_perms.mapped
    /\ fn_in.pc_perms.symbolic \/ HasBit(fn_in.pc_perms, 4)

\* the memory accesses among the actions of the executed instruction
MemAccesses(actions) == SelectSeq(actions, LAMBDA a : a.type = "mem")

\* C22: when pc is mapped and executable the verdict is that of the last
\* memory access of the executed instruction alone, whatever the earlier
\* accesses of the instruction were
C22_LastAccessDecides ==
    (/\ QuickStepped
     /\ MemAccesses(fn_in.actions) # <<>>
     /\ \A i \in 1..Len(fn_in.actions) : fn_in.actions[i].action \in {"read", "write"}) =>
        LET mem == MemAccesses(fn_in.actions)
        IN fn_out = quick_triage([fn_in EXCEPT !.actions = <<mem[Len(mem)]>>])

\* the high byte of pc is that of a 16 MiB region of [min_addr, max_addr)
InImageRegion(eip, image) ==
    \E k \in 0..127 :
        /\ k * 16777216 = HighByte(eip)
        /\ k >= image.min_addr \div 16777216
        /\ k * 16777216 < image.max_addr

\* C23: for pc >= 0x1000 without a mapping the verdict is
\* PARTIAL_IP_OVERWRITE exactly when the high byte of pc is that of a 16 MiB
\* region of the image's address range and IP_OVERWRITE otherwise; for a
\* mapped pc whose permissions lack the execute bit it is
\* UNCONTROLLED_IP_OVERWRITE; no instruction is executed in these cases
C23_UnmappedOrNotExecutablePc ==
    (QuickSupported /\ fn_in.eip >= 4096) =>
        /\ ~fn_in.pc_perms.mapped =>
              /\ fn_out.raised = None
              /\ fn_out.pc = fn_in.eip
              /\ fn_out.stepped = 0
              /\ fn_out.verdict \in {PARTIAL_IP_OVERWRITE, IP_OVERWRITE}
              /\ (fn_out.verdict = PARTIAL_IP_OVERWRITE) <=> InImageRegion(fn_in.eip, fn_in.image)
        /\ (fn_in.pc_perms.mapped /\ ~fn_in.pc_perms.symbolic /\ ~HasBit(fn_in.pc_perms, 4)) =>
              /\ fn_out.raised = None
              /\ fn_out.pc = fn_in.eip
              /\ fn_out.stepped = 0
              /\ fn_out.verdict = UNCONTROLLED_IP_OVERWRITE

\* an unmapped pc in the second 16 MiB region of an image that spans two
C23_Witness ==
    /\ QuickSupported
    /\ fn_in.eip = 150994944
    /\ ~fn_in.pc_perms.mapped
    /\ fn_in.image.min_addr < 150994944
    /\ fn_in.image.min_addr \div 16777216 # 150994944 \div 16777216
    /\ fn_out.verdict = PARTIAL_IP_OVERWRITE
    /\ fn_out.stepped = 0

\* step 3 with an instruction that produced one memory access, of target
\* 0x1000 or above
QuickSingleAccess ==
    /\ QuickStepped
    /\ Len(MemAccesses(fn_in.actions)) = 1
    /\ MemAccesses(fn_in.actions)[1].target >= 4096

\* C24 as stated: a single write whose target is below 0x100000, unmapped
\* or on a page without write permission gives UNCONTROLLED_WRITE, every
\* other write WRITE_WHAT_WHERE, a read ARBITRARY_READ, and no memory access
\* at all the verdict 'unknown'
C24_SingleAccessVerdict ==
    /\ QuickSingleAccess =>
          LET a == MemAccesses(fn_in.actions)[1]
              uncontrolled == \/ a.target < 1048576
                              \/ ~a.perms.mapped
                              \/ ~a.perms.symbolic /\ ~HasBit(a.perms, 2)
          IN /\ (a.action = "write" /\ uncontrolled) => fn_out.verdict = UNCONTROLLED_WRITE
             /\ (a.action = "write" /\ ~uncontrolled) => fn_out.verdict = WRITE_WHAT_WHERE
             /\ (a.action = "read") => fn_out.verdict = ARBITRARY_READ
    /\ (QuickStepped /\ MemAccesses(fn_in.actions) = <<>>) =>
          (fn_out.raised = None /\ fn_out.verdict = "unknown")

\* C24 (amended): a single write whose target is below 0x100000, or mapped
\* with concrete permissions that lack the write bit, gives
\* UNCONTROLLED_WRITE; every other write, one to an unmapped target
\* included, gives WRITE_WHAT_WHERE; a read gives ARBITRARY_READ; no memory
\* access at all gives the verdict 'unknown' and no error
C24_SingleAccessVerdictMapped ==
    /\ QuickSingleAccess =>
          LET a == MemAccesses(fn_in.actions)[1]
              uncontrolled == \/ a.target < 1048576
                              \/ a.perms.mapped /\ ~a.perms.symbolic /\ ~HasBit(a.perms, 2)
          IN /\ (a.action = "write" /\ uncontrolled) => fn_out.verdict = UNCONTROLLED_WRITE
             /\ (a.action = "write" /\ ~uncontrolled) => fn_out.verdict = WRITE_WHAT_WHERE
             /\ (a.action = "read") => fn_out.verdict = ARBITRARY_READ
             /\ (a.action \in {"read", "write"}) =>
                    (fn_out.raised = None /\ fn_out.pc = fn_in.eip /\ fn_out.stepped = 1)
    /\ (QuickStepped /\ MemAccesses(fn_in.actions) = <<>>) =>
          (fn_out.raised = None /\ fn_out.verdict = "unknown" /\ fn_out.stepped = 1)

\* a single write to the unmapped address 0x41414141
C24_Witness ==
    /\ QuickSingleAccess
    /\ MemAccesses(fn_in.actions)[1].action = "write"
    /\ MemAccesses(fn_in.actions)[1].target = 1094795585
    /\ ~MemAccesses(fn_in.actions)[1].perms.mapped
    /\ fn_out.verdict = WRITE_WHAT_WHERE

\* ------------------------------------------------------------------------
\* Using a crash: a few exploration rounds, then exploit, yield_exploits
\* ------------------------------------------------------------------------
ExploreFirstRounds ==
    /\ pc = "live"
    /\ obj.explore_steps < MaxUseRounds
    /\ Explore

UseNext == Construct \/ ExploreFirstRounds \/ Exploit \/ YieldExploits \/ PointToFlag

UseSpec == Init /\ [][UseNext]_vars

\* C11: exploit and yield_exploits fail with CannotExploit exactly when the
\* classification is ARBITRARY_READ or none; for every other kind a factory
\* is built (and, by exploit, initialized), carrying the caller's blacklist
C11_ExploitGate ==
    [][(pc = "live" /\ last'.op \in {"exploit", "yield_exploits"}) =>
            /\ (last'.raised = NonExploitable) <=> (obj.crash_type \in {ARBITRARY_READ, None})
            /\ last'.raised \in {NonExploitable, None}
            /\ (last'.raised = None) <=>
                    obj.crash_type \in {IP_OVERWRITE, PARTIAL_IP_OVERWRITE, BP_OVERWRITE,
                                        PARTIAL_BP_OVERWRITE, WRITE_WHAT_WHERE, WRITE_X_WHERE}
            /\ (last'.raised = None) <=> (last'.factory.class = "CGCExploitFactory")
            /\ (last'.raised # None) => (last'.factory = NoFactory)
            /\ obj' = obj /\ pc' = pc]_vars

\* a factory was built for a crash that exploration turned from explorable
\* only into exploitable
C11_Witness ==
    /\ pc = "live"
    /\ last.op = "exploit"
    /\ last.raised = None
    /\ last.factory.initialized
    /\ obj.crash_type = IP_OVERWRITE
    /\ obj.explore_steps > 0
    /\ obj.constrained_addrs[1].action = "read"

\* the range of the flag page that point_to_flag asks for
FlagRange == [lo |-> MagicPage, hi |-> MagicPage + PAGE - 4]

\* C20: a successful point_to_flag serializes the new input from a copy of
\* the crash state that carries the range constraints; it does not ask for a
\* trace, does not classify, does not add the range constraints to the
\* crash's own state and leaves step count, classification, violating
\* action and access list as they were
C20_FlagPointingTerminal ==
    [][(pc = "live" /\ last'.op = "point_to_flag" /\ last'.raised = None) =>
            /\ obj.crash_type = ARBITRARY_READ
            /\ last'.new_input.within = FlagRange
            /\ last'.new_input.forced = obj.state.cons \cup obj.state.flag_cons
            /\ last'.written \in {NoInput, last'.new_input}
            /\ obj'.state.within = NoRange
            /\ obj'.state.cons = obj.state.cons \cup obj.state.flag_cons
            /\ obj'.explore_steps = obj.explore_steps
            /\ obj'.crash_type = obj.crash_type
            /\ obj'.violating_action = obj.violating_action
            /\ obj'.constrained_addrs = obj.constrained_addrs
            /\ obj'.crash = obj.crash
            /\ n_traces' = n_traces
            /\ n_triaged' = n_triaged
            /\ pc' = pc]_vars

\* an explored crash was pointed at the flag page and the input written
C20_Witness ==
    /\ pc = "live"
    /\ last.op = "point_to_flag"
    /\ last.raised = None
    /\ last.new_input.within = FlagRange
    /\ last.written = last.new_input
    /\ obj.state.within = NoRange
    /\ obj.reconstrained_flag
    /\ obj.explore_steps > 0

\* C21: point_to_flag fails with CannotExploit when the classification is
\* not ARBITRARY_READ and when the violating address cannot be placed in
\* [0x4347c000, 0x4347c000 + 0x1000 - 4) under the constraints of the crash
\* state; otherwise the input is serialized from a state that constrains the
\* address to that range; a failing call serializes and writes nothing
C21_FlagPointingFailures ==
    [][(pc = "live" /\ last'.op = "point_to_flag") =>
            /\ last'.raised \in {None, NotArbitraryRead, NoFlagPointer}
            /\ (last'.raised = NotArbitraryRead) <=> (obj.crash_type # ARBITRARY_READ)
            /\ (last'.raised = NoFlagPointer) <=>
                    /\ obj.crash_type = ARBITRARY_READ
                    /\ ~SatisfiableRange(obj.state.cons \cup obj.state.flag_cons,
                                         obj.violating_action.addr, FlagRange.lo, FlagRange.hi)
            /\ (last'.raised # None) =>
                    (last'.new_input = NoInput /\ last'.written = NoInput)
            /\ (last'.raised = None) =>
                    /\ last'.new_input.within = FlagRange
                    /\ last'.new_input.forced = obj.state.cons \cup obj.state.flag_cons]_vars

\* an arbitrary read that cannot reach the flag page was asked to, with a
\* path file
C21_Witness ==
    /\ pc = "live"
    /\ last.op = "point_to_flag"
    /\ last.raised = NoFlagPointer
    /\ last.new_input = NoInput /\ last.written = NoInput
    /\ obj.crash_type = ARBITRARY_READ
    /\ obj.reconstrained_flag

\* the memory accesses of the block before the crash and of the crashing
\* block whose address is symbolic
LoggedSymbolicAccesses(self) ==
    {k \in DOMAIN (self.prev.actions \o self.state.actions) :
        LET a == (self.prev.actions \o self.state.actions)[k]
        IN a.type = "mem" /\ symbolic(a.addr)}

\* C25: in every state after a classification ran, whatever explore and
\* point_to_flag calls followed and whether they failed, a violating action
\* is recorded exactly when the classification is ARBITRARY_READ,
\* WRITE_WHAT_WHERE or WRITE_X_WHERE; the classification is none exactly
\* when ip and bp are concrete and no logged memory access has a symbolic
\* address; and no call fails on the assertion that a violating action is
\* present
C25_ViolatingActionRecorded ==
    (n_triaged > 0) =>
        /\ (obj.violating_action # NoAction) <=>
                obj.crash_type \in {ARBITRARY_READ, WRITE_WHAT_WHERE, WRITE_X_WHERE}
        /\ (obj.crash_type = None) <=>
                /\ ~symbolic(obj.state.ip)
                /\ ~symbolic(obj.state.bp)
                /\ LoggedSymbolicAccesses(obj) = {}
        /\ (obj.violating_action # NoAction) =>
                \E k \in LoggedSymbolicAccesses(obj) :
                    (obj.prev.actions \o obj.state.actions)[k] = obj.violating_action
        /\ last.raised # AssertionError

\* a crash that was explorable, was explored into a state with a symbolic
\* ip and logged symbolic accesses, and was then asked to point to the flag:
\* no violating action is left from the round before
C25_Witness ==
    /\ pc = "live"
    /\ n_triaged = 2
    /\ last.op = "point_to_flag"
    /\ last.raised = NotArbitraryRead
    /\ obj.crash_type = IP_OVERWRITE
    /\ obj.constrained_addrs # <<>>
    /\ LoggedSymbolicAccesses(obj) # {}
    /\ obj.violating_action = NoAction

\* ------------------------------------------------------------------------
\* Properties of explore
\* ------------------------------------------------------------------------
ExplorableKinds == {ARBITRARY_READ, WRITE_WHAT_WHERE, WRITE_X_WHERE}

\* the step is a call of explore on the live object
ExploreCalled == pc = "live" /\ last'.op = "explore"

\* the live object went through exactly MaxSteps successful rounds
AtStepBound ==
    /\ pc = "live"
    /\ obj.explore_steps = MaxSteps
    /\ Len(obj.constrained_addrs) = MaxSteps
    /\ n_triaged = MaxSteps + 1

C12_NonCrashingNotTriaged ==
    [][(last'.raised = NonCrashingInput /\ pc # "failed") =>
            /\ pc' = "failed"
            /\ n_triaged' = n_triaged
            /\ n_traces' = n_traces + 1
            /\ obj'.crash_type = obj.crash_type
            /\ obj'.violating_action = obj.violating_action
            /\ (pc = "new") => (obj'.crash_type = None /\ obj'.violating_action = NoAction)]_vars

\* the input made by an exploration round did not crash
C12_Witness ==
    /\ pc = "failed"
    /\ last.op = "explore"
    /\ last.raised = NonCrashingInput
    /\ last.new_input = obj.crash
    /\ obj.explore_steps > 0
    /\ n_triaged = obj.explore_steps

\* the candidates of the write search in the order the loops visit them:
\* writable segments that overlap [min, max] in image order, in each the
\* addresses from the segment start in steps of a page
RECURSIVE PagesOf(_, _)
PagesOf(segs, i) ==
    IF i > Len(segs) THEN <<>>
    ELSE PyRange(segs[i].min_addr, segs[i].max_addr, PAGE) \o PagesOf(segs, i + 1)

WriteCandidates(self) ==
    LET addr == self.violating_action.addr
        min_write == SolverMin(self.state.cons, addr)
        max_write == SolverMax(self.state.cons, addr)
    IN PagesOf(SelectSeq(Image.segments,
                         LAMBDA seg : /\ seg.is_writable
                                      /\ seg.min_addr <= max_write
                                      /\ seg.max_addr >= min_write), 1)

\* the first candidate for which addr == candidate is satisfiable, -1 when
\* there is none
FirstSatisfiableWrite(self) ==
    LET candidates == WriteCandidates(self)
        k == FirstSatisfiable(self.state.cons, self.violating_action.addr, candidates, 1)
    IN IF k = 0 THEN -1 ELSE candidates[k]

\* the step is a call of explore on a live arbitrary-write crash
WriteExploreCalled ==
    /\ ExploreCalled
    /\ obj.crash_type \in {WRITE_WHAT_WHERE, WRITE_X_WHERE}

\* C13: arbitrary-write exploration raises CannotExploit if and only if no
\* page-stride candidate of a writable segment overlapping [min, max] is
\* satisfiable; when one is, a constraint is committed and the new input is
\* handed on to be traced
C13_WriteFailsOnlyWhenNone ==
    [][WriteExploreCalled =>
            /\ (last'.raised = NoWriteSegment) <=>
                    (FirstSatisfiableWrite(_reconstrain_flag_data(obj)) = -1)
            /\ (FirstSatisfiableWrite(_reconstrain_flag_data(obj)) # -1) =>
                    /\ last'.addr # -1
                    /\ last'.new_input # NoInput
                    /\ last'.raised \in {None, NonCrashingInput, TooManySteps}]_vars

\* C16: the address the write search commits is the first candidate, in the
\* order of the walk, for which addr == candidate is satisfiable; candidates
\* of later segments never replace it
C16_FirstSatisfiableWriteWins ==
    [][(WriteExploreCalled /\ last'.addr # -1) =>
            last'.addr = FirstSatisfiableWrite(_reconstrain_flag_data(obj))]_vars

\* the satisfiable candidates of the read search on the object self: start
\* addresses of attacker-influenced segments and pages of the image, both
\* within [min, max]
SatisfiableReads(self, among) ==
    LET addr == self.violating_action.addr
    IN {c \in among : /\ SolverMin(self.state.cons, addr) <= c
                       /\ c <= SolverMax(self.state.cons, addr)
                       /\ SatisfiableEq(self.state.cons, addr, c)}

ImagePages == Range(PyRange(Image.min_addr, Image.max_addr, PAGE))

\* C17: the read search commits the first satisfiable candidate of the list
\* (segment starts by length descending, then image pages ascending, both
\* within [min, max]): a satisfiable segment start of greatest length when
\* there is one, else the lowest satisfiable page; CannotExploit is raised
\* if and only if no candidate is satisfiable
C17_ReadFirstSatisfiable ==
    [][(ExploreCalled /\ obj.crash_type = ARBITRARY_READ) =>
            \A s1 \in {_reconstrain_flag_data(obj)} :
            \A regions \in {SatisfiableReads(s1, DOMAIN s1.symbolic_mem)},
               pages \in {SatisfiableReads(s1, ImagePages)} :
               /\ (last'.raised = NoReadAddress) <=> (regions \cup pages = {})
               /\ (last'.raised = NoReadAddress) <=> (last'.addr = -1)
               /\ (regions # {}) =>
                      /\ last'.addr \in regions
                      /\ \A c \in regions :
                            s1.symbolic_mem[last'.addr] >= s1.symbolic_mem[c]
               /\ (regions = {} /\ pages # {}) =>
                      /\ last'.addr \in pages
                      /\ \A c \in pages : last'.addr <= c]_vars

\* a shorter segment was committed because the longest one is not satisfiable,
\* although a lower page is
C17_Witness ==
    /\ last.op = "explore"
    /\ last.raised = None
    /\ last.addr = 134516752
    /\ last.min < last.addr
    /\ obj.constrained_addrs[Len(obj.constrained_addrs)].action = "read"

\* C18: a successful exploration round traces the newly serialized input and
\* hands on a step count one greater, the access list with this round's
\* violating action appended at the end and the same rop handle (none when
\* none was in use); so after k successful rounds from a fresh crash the
\* step count is k and the list holds the k violating actions in round order
C18_CarryForward ==
    /\ [](pc = "live" =>
            /\ obj.explore_steps = n_triaged - 1
            /\ Len(obj.constrained_addrs) = n_triaged - 1)
    /\ [][(ExploreCalled /\ last'.raised = None) =>
            /\ obj'.explore_steps = obj.explore_steps + 1
            /\ obj'.constrained_addrs = Append(obj.constrained_addrs, obj.violating_action)
            /\ obj'.rop = obj.rop
            /\ last'.new_input # NoInput
            /\ obj'.crash = last'.new_input
            /\ n_traces' = n_traces + 1
            /\ n_triaged' = n_triaged + 1]_vars

\* three successful rounds with a rop handle: a read, then a write, then a read
C18_Witness ==
    /\ pc = "live"
    /\ last.op = "explore" /\ last.raised = None
    /\ obj.explore_steps = 3
    /\ n_triaged = 4
    /\ obj.rop = NewRop(0)
    /\ Len(obj.constrained_addrs) = 3
    /\ obj.constrained_addrs[1].action = "read"
    /\ obj.constrained_addrs[2].action = "write"
    /\ obj.constrained_addrs[3].action = "read"

\* the chain of explore calls is over: __init__ raised (the input did not
\* crash, or the step bound was hit), the classification is not explorable,
\* or the last call of explore raised because no candidate is satisfiable
ChainEnded ==
    \/ pc = "failed"
    \/ /\ pc = "live"
       /\ \/ obj.crash_type \notin ExplorableKinds
          \/ last.op = "explore" /\ last.raised \in {NoReadAddress, NoWriteSegment}

\* C19: whatever the engine and the solver answer, a chain of explore calls
\* that goes on while the crash is explorable ends after at most 10
\* successful rounds: the step count of a live crash never exceeds 10, every
\* call of explore either is a successful round that raises the step count
\* by one or raises, and a call that raises ends the chain for one of the
\* four reasons
C19_ChainTerminates ==
    /\ [](/\ n_triaged <= MaxSteps + 1
          /\ pc = "live" => obj.explore_steps <= MaxSteps)
    /\ [][ExploreCalled =>
            \/ /\ last'.raised = None
               /\ pc' = "live"
               /\ obj'.explore_steps = obj.explore_steps + 1
               /\ n_triaged' = n_triaged + 1
            \/ /\ last'.raised = CannotExplore
               /\ obj.crash_type \notin ExplorableKinds
               /\ ChainEnded'
            \/ /\ last'.raised \in {NoReadAddress, NoWriteSegment}
               /\ last'.addr = -1
               /\ ChainEnded'
            \/ /\ last'.raised = NonCrashingInput
               /\ ChainEnded'
            \/ /\ last'.raised = TooManySteps
               /\ obj.explore_steps = MaxSteps
               /\ ChainEnded']_vars

\* ten successful rounds, ended by a classification that is not explorable
C19_Witness ==
    /\ pc = "live"
    /\ last.op = "explore" /\ last.raised = None
    /\ n_triaged = MaxSteps + 1
    /\ obj.explore_steps = MaxSteps
    /\ obj.crash_type \in {IP_OVERWRITE, None}

\* a call of explore in which the candidate search of _explore_arbitrary_read
\* or _explore_arbitrary_write found nothing
SearchFailed == ExploreCalled /\ last'.raised \in {NoReadAddress, NoWriteSegment}

\* C26: when the candidate search raises CannotExploit, the crash state has
\* the constraints it had when the search began (those explore left after
\* _reconstrain_flag_data, no equality added), nothing was serialized or
\* written to the path file, no trace was requested, and step count,
\* classification, violating action, accumulated access list and crash
\* input are unchanged
C26_FailedSearchNoEffect ==
    [][SearchFailed =>
            /\ obj' = _reconstrain_flag_data(obj)
            /\ obj'.state.cons \cup obj'.state.flag_cons
                    = obj.state.cons \cup obj.state.flag_cons
            /\ obj'.state.within = obj.state.within
            /\ last'.new_input = NoInput /\ last'.written = NoInput
            /\ n_traces' = n_traces /\ n_triaged' = n_triaged
            /\ obj'.explore_steps = obj.explore_steps
            /\ obj'.crash_type = obj.crash_type
            /\ obj'.violating_action = obj.violating_action
            /\ obj'.constrained_addrs = obj.constrained_addrs
            /\ obj'.crash = obj.crash
            /\ pc' = pc]_vars

\* a read search failed in a later round, with a feasible range that is not
\* a single address
C26_Witness ==
    /\ pc = "live"
    /\ last.op = "explore"
    /\ last.raised = NoReadAddress
    /\ last.min < last.max
    /\ obj.explore_steps > 0
    /\ obj.constrained_addrs # <<>>
    /\ obj.crash_type = ARBITRARY_READ

\* C27: when an explore call fails because the next round's step count
\* would exceed 10, the crash object has the same step count (at most 10),
\* crash input, accumulated access list, classification, violating action
\* and constraint set as before the call, and no input file was written;
\* and the step count of a crash is at most 10 in every reachable state
C27_StepBoundLeavesCrash ==
    /\ [](obj.explore_steps <= MaxSteps)
    /\ [][(ExploreCalled /\ last'.raised = TooManySteps) =>
            /\ obj'.explore_steps = obj.explore_steps
            /\ obj'.explore_steps <= MaxSteps
            /\ obj'.crash = obj.crash
            /\ obj'.constrained_addrs = obj.constrained_addrs
            /\ obj'.crash_type = obj.crash_type
            /\ obj'.violating_action = obj.violating_action
            /\ obj'.state.cons \cup obj'.state.flag_cons
                    = obj.state.cons \cup obj.state.flag_cons
            /\ last'.written = NoInput]_vars

\* C7: an address that the read search or the write search commits as the
\* equality on the violating address lies in the closed interval [min, max]
\* the solver reports for the violating address
C7_CommittedInRange ==
    (last.op = "explore" /\ last.addr # -1) =>
        /\ last.min <= last.addr
        /\ last.addr <= last.max
        /\ last.raised \notin {CannotExplore, NoReadAddress, NoWriteSegment}

\* both searches have committed an address, the write search last
C7_Witness ==
    /\ last.op = "explore"
    /\ last.addr # -1
    /\ last.min < last.addr
    /\ Len(obj.constrained_addrs) >= 2
    /\ obj.constrained_addrs[Len(obj.constrained_addrs)].action = "write"
    /\ \E i \in 1..Len(obj.constrained_addrs) : obj.constrained_addrs[i].action = "read"

\* C10: explore on a crash whose classification is not explorable fails with
\* CannotExplore and nothing else happens: the object (constraints, step
\* count, classification, access list) is unchanged, no input is serialized
\* or written, the engine is not asked to run anything
C10_NotExplorableFailsFirst ==
    [][(ExploreCalled /\ obj.crash_type \notin ExplorableKinds) =>
            /\ last'.raised = CannotExplore
            /\ last'.addr = -1
            /\ last'.new_input = NoInput
            /\ last'.written = NoInput
            /\ obj' = obj
            /\ pc' = pc
            /\ n_traces' = n_traces
            /\ n_triaged' = n_triaged]_vars

C10_Witness ==
    /\ pc = "live"
    /\ last.op = "explore"
    /\ last.raised = CannotExplore
    /\ obj.crash_type \in {IP_OVERWRITE, PARTIAL_IP_OVERWRITE, BP_OVERWRITE,
                            PARTIAL_BP_OVERWRITE, None}
    /\ obj.explore_steps > 0

\* ------------------------------------------------------------------------
\* trace_additions.py: the hooks around format functions
\* ------------------------------------------------------------------------
\* deepest nesting of hooked functions, and calls of hooked functions
MaxNesting == 3

MaxCalls == 4

\* pending_info = None
NoInfo == [type |-> "None"]

\* ret_addr_to_unhook = None
NoAddr == -1

\* chall_resp_plugin.format_infos: the address of each hooked function and
\* its FormatInfo
FormatInfos ==
    (134514000 :> [addr |-> 134514000, func_name |-> "strtol", type |-> "StrToInt"])
    @@ (134514100 :> [addr |-> 134514100, func_name |-> "itoa", type |-> "IntToStr"])
    @@ (134514200 :> [addr |-> 134514200, func_name |-> "printf", type |-> "DontConstrain"])

\* return addresses of the call sites, and argument values of the calls
RetAddrs == {134515001, 134515002, 134515003, 134515004}

ArgSamples == {1, 2}

\* ChallRespInfo.__init__
ChallRespInfo ==
    [pending_info |-> NoInfo, ret_addr_to_unhook |-> NoAddr,
     backup_pending_info |-> <<>>,
     str_to_int_pairs |-> <<>>, int_to_str_pairs |-> <<>>]

\* format_info.copy() followed by format_info.compute(state): the copy
\* carries the argument of this call; FormatInfoDontConstrain computes nothing
Computed(format_info, arg) ==
    [addr |-> format_info.addr, func_name |-> format_info.func_name,
     type |-> format_info.type,
     input_val |-> IF format_info.type = "DontConstrain" THEN 0 ELSE arg]

\* project.hook(addr, end_info_hook) and project.unhook(addr)
Hook(hooks, addr) == hooks \cup {addr}

Unhook(hooks, addr) == hooks \ {addr}

\* generic_info_hook: the traced program enters the hooked function at addr,
\* called with argument arg from the call site that returns to ret_addr
generic_info_hook(plugin, hooks, addr, arg, arg_symbolic, ret_addr) ==
    LET format_info == FormatInfos[addr]
        suspended == plugin.pending_info # NoInfo
        p1 == IF suspended
              THEN [plugin EXCEPT !.backup_pending_info =
                                       Append(plugin.backup_pending_info,
                                              <<plugin.ret_addr_to_unhook, plugin.pending_info>>),
                                  !.ret_addr_to_unhook = NoAddr,
                                  !.pending_info = NoInfo]
              ELSE plugin
        h1 == IF suspended THEN Unhook(hooks, plugin.ret_addr_to_unhook) ELSE hooks
    IN IF format_info.type = "DontConstrain" /\ arg_symbolic
       THEN [plugin |-> plugin, hooked |-> hooks, hooking |-> FALSE]
       ELSE [plugin |-> [p1 EXCEPT !.ret_addr_to_unhook = ret_addr,
                                   !.pending_info = Computed(format_info, arg)],
             hooked |-> Hook(h1, ret_addr), hooking |-> TRUE]

\* ChallRespInfo.pop_from_backup
pop_from_backup(plugin, hooks) ==
    IF plugin.backup_pending_info # <<>>
    THEN LET ret_addr == plugin.backup_pending_info[1][1]
             pending_info == plugin.backup_pending_info[1][2]
         IN [plugin |-> [plugin EXCEPT !.pending_info = pending_info,
                                       !.ret_addr_to_unhook = ret_addr,
                                       !.backup_pending_info =
                                            Tail(plugin.backup_pending_info)],
             hooked |-> Hook(hooks, ret_addr)]
    ELSE [plugin |-> plugin, hooked |-> hooks]

\* end_info_hook: the traced program reaches the hooked return address;
\* empty says that the converted string has length 0
end_info_hook(plugin, hooks, empty) ==
    LET pending_info == plugin.pending_info
        p1 == [plugin EXCEPT !.ret_addr_to_unhook = NoAddr, !.pending_info = NoInfo]
        h1 == Unhook(hooks, plugin.ret_addr_to_unhook)
    IN IF pending_info.type = "StrToInt"
       THEN IF empty THEN pop_from_backup(p1, h1)
            ELSE pop_from_backup([p1 EXCEPT !.str_to_int_pairs =
                                                Append(p1.str_to_int_pairs, pending_info)], h1)
       ELSE IF pending_info.type = "IntToStr"
       THEN IF empty THEN pop_from_backup(p1, h1)
            ELSE pop_from_backup([p1 EXCEPT !.int_to_str_pairs =
                                                Append(p1.int_to_str_pairs, pending_info)], h1)
       ELSE [plugin |-> [p1 EXCEPT !.backup_pending_info = <<>>], hooked |-> h1]

\* the plugin as add_options registers it, before the program runs
HookInit ==
    /\ PureIdle
    /\ TriageIdle
    /\ CrashIdle
    /\ chall_resp_plugin = ChallRespInfo
    /\ hooked = {}
    /\ frames = <<>>
    /\ n_calls = 0

FrameRets == {frames[k].ret_addr : k \in DOMAIN frames}

\* the traced program calls a hooked function from a call site that is not
\* one of those it has still to return to
CallHooked ==
    /\ Len(frames) < MaxNesting
    /\ n_calls < MaxCalls
    /\ \E addr \in DOMAIN FormatInfos, arg \in ArgSamples, arg_symbolic \in BOOLEAN,
          ret_addr \in RetAddrs \ FrameRets :
          LET r == generic_info_hook(chall_resp_plugin, hooked, addr, arg, arg_symbolic,
                                     ret_addr)
          IN /\ chall_resp_plugin' = r.plugin
             /\ hooked' = r.hooked
             /\ frames' = Append(frames, [info |-> Computed(FormatInfos[addr], arg),
                                          ret_addr |-> ret_addr, hooking |-> r.hooking])
    /\ n_calls' = n_calls + 1
    /\ UNCHANGED <<pure_vars, triage_vars, crash_vars>>

\* the innermost hooked function returns: end_info_hook runs when its return
\* address is hooked
ReturnHooked ==
    /\ frames # <<>>
    /\ LET top == frames[Len(frames)]
       IN IF top.ret_addr \in hooked
          THEN \E empty \in BOOLEAN :
                  LET r == end_info_hook(chall_resp_plugin, hooked, empty)
                  IN chall_resp_plugin' = r.plugin /\ hooked' = r.hooked
          ELSE UNCHANGED <<chall_resp_plugin, hooked>>
    /\ frames' = SubSeq(frames, 1, Len(frames) - 1)
    /\ UNCHANGED <<n_calls, pure_vars, triage_vars, crash_vars>>

HookNext == CallHooked \/ ReturnHooked

HookSpec == HookInit /\ [][HookNext]_vars

\* generic_info_hook ran and hooked the return address
HookFired == Len(frames') > Len(frames) /\ frames'[Len(frames')].hooking

\* end_info_hook ran
EndHookFired == Len(frames') < Len(frames) /\ frames[Len(frames)].ret_addr \in hooked

Last(s) == s[Len(s)]

Front(s) == SubSeq(s, 1, Len(s) - 1)

\* C28: when generic_info_hook fires while an info is pending, that info is
\* appended to the backup list with its return address; when end_info_hook
\* fires with a non-empty backup list, the info it makes pending is the one
\* suspended last, its return address is hooked again and it leaves the
\* list, so that suspended infos are resumed in reverse order of suspension,
\* each once; and pending_info is set exactly when a return-address hook is
\* recorded
C28_NestedHooksResumeInReverse ==
    /\ []((chall_resp_plugin.pending_info # NoInfo)
            <=> (chall_resp_plugin.ret_addr_to_unhook # NoAddr))
    /\ []((chall_resp_plugin.ret_addr_to_unhook # NoAddr)
            <=> (hooked = {chall_resp_plugin.ret_addr_to_unhook}))
    /\ [][(HookFired /\ chall_resp_plugin.pending_info # NoInfo) =>
            chall_resp_plugin'.backup_pending_info =
                Append(chall_resp_plugin.backup_pending_info,
                       <<chall_resp_plugin.ret_addr_to_unhook,
                         chall_resp_plugin.pending_info>>)]_vars
    /\ [][(EndHookFired /\ chall_resp_plugin.backup_pending_info # <<>>) =>
            /\ chall_resp_plugin'.pending_info = Last(chall_resp_plugin.backup_pending_info)[2]
            /\ chall_resp_plugin'.ret_addr_to_unhook
                    = Last(chall_resp_plugin.backup_pending_info)[1]
            /\ hooked' = {Last(chall_resp_plugin.backup_pending_info)[1]}
            /\ chall_resp_plugin'.backup_pending_info
                    = Front(chall_resp_plugin.backup_pending_info)]_vars

====
